---- MODULE Spec2Model ----
(***************************************************************************)
(* Model of maze.py: the Maze class (a sparse grid of Maze.Cell objects)   *)
(* and its depth-first population.  A client constructs one Maze and then  *)
(* calls its methods one at a time; populateFrom runs as a sequence of     *)
(* steps of the recursion in _recursivePopulate.  call is the client's     *)
(* latest call, ret what it returned, pre the grid as that call found it,  *)
(* and entered counts, per cell, the invocations of _recursivePopulate     *)
(* made by the latest call.                                                *)
(***************************************************************************)
EXTENDS Integers, Sequences, FiniteSets, TLC

VARIABLES max_width, max_height, cellrows, stack, pc, call, ret, ncalls, pre, entered

vars == <<max_width, max_height, cellrows, stack, pc, call, ret, ncalls, pre, entered>>

(* Bounds of the model *)
MaxSide == 3
MaxCells == 4
MaxCalls == 2

(* Python's None where an integer is expected (the unset bounding box) *)
None == -1000

(* Values returned to the caller; NoRet while no call has returned one *)
RetNone == [kind |-> "None"]
RetBool(b) == [kind |-> "bool", val |-> b]
RetCell(c) == [kind |-> "Cell", val |-> c]
AttributeError == [kind |-> "AttributeError"]
RecursionError == [kind |-> "RecursionError"]
TypeError == [kind |-> "TypeError"]
RetStr(t) == [kind |-> "str", val |-> t]
NoRet == [kind |-> "no value"]

(* The attributes a Maze instance has: its methods and its three fields *)
MazeAttributes ==
    {"createCell", "_recursivePopulate", "populateFrom", "cellExists", "getCell",
     "__str__", "_Maze__max_width", "_Maze__max_height", "_Maze__cellrows"}

(* Maze.__init__: the 'min' and 'max' entries of __cellrows, and no row *)
EmptyCellrows == [min |-> <<None, None>>, max |-> <<None, None>>, rows |-> <<>>]

(* Maze.cellExists on the grid cr *)
cellExists(cr, x, y) ==
    IF y \notin DOMAIN cr.rows THEN FALSE
    ELSE IF x \notin DOMAIN cr.rows[y] THEN FALSE
    ELSE TRUE

(* Cell.__init__ with the two neighbour lookups of an empty cell exchanged *)
Cell_SwappedNeighbours(cr, x, y, empty) ==
    [x |-> x, y |-> y, empty |-> empty,
     wall_below |-> IF empty THEN cellExists(cr, x + 1, y) ELSE TRUE,
     wall_right |-> IF empty THEN cellExists(cr, x, y + 1) ELSE TRUE]

(* Maze.Cell.__init__ *)
Cell(cr, x, y, empty) ==
    [x |-> x, y |-> y, empty |-> empty,
     wall_below |-> IF empty THEN cellExists(cr, x, y + 1) ELSE TRUE,
     wall_right |-> IF empty THEN cellExists(cr, x + 1, y) ELSE TRUE]

(* Maze.getCell *)
getCell(cr, x, y) ==
    IF x < 0 \/ x >= max_width THEN Cell(cr, x, y, TRUE)
    ELSE IF y < 0 \/ y >= max_height THEN Cell(cr, x, y, TRUE)
    ELSE IF y \notin DOMAIN cr.rows THEN Cell(cr, x, y, TRUE)
    ELSE IF x \notin DOMAIN cr.rows[y] THEN Cell(cr, x, y, TRUE)
    ELSE cr.rows[y][x]

(* A bounding box update that keeps only the coordinate of the latest call *)
UpdateBounds_LastCell(cr, x, y) ==
    [cr EXCEPT !.min = <<x, y>>, !.max = <<x, y>>]

(* The bounding box update of Maze.createCell *)
UpdateBounds(cr, x, y) ==
    LET min1 == IF cr.min[2] = None \/ cr.min[2] > y THEN y ELSE cr.min[2]
        max1 == IF cr.max[2] = None \/ cr.max[2] < y THEN y ELSE cr.max[2]
        min0 == IF cr.min[1] = None \/ cr.min[1] > x THEN x ELSE cr.min[1]
        max0 == IF cr.max[1] = None \/ cr.max[1] < x THEN x ELSE cr.max[1]
    IN  [cr EXCEPT !.min = <<min0, min1>>, !.max = <<max0, max1>>]

(* createCell that constructs and stores a fresh Cell whenever it is in    *)
(* bounds, also over a cell already stored                                 *)
createCell_AlwaysNew(cr, x, y) ==
    IF x < 0 \/ x >= max_width THEN [cellrows |-> cr, ret |-> RetNone]
    ELSE IF y < 0 \/ y >= max_height THEN [cellrows |-> cr, ret |-> RetNone]
    ELSE LET b == UpdateBounds(cr, x, y)
             new == Cell(b, x, y, FALSE)
         IN  IF y \notin DOMAIN b.rows
             THEN [cellrows |-> [b EXCEPT !.rows = (y :> (x :> new)) @@ b.rows],
                   ret |-> RetCell(new)]
             ELSE [cellrows |-> [b EXCEPT !.rows[y] = (x :> new) @@ b.rows[y]],
                   ret |-> RetCell(new)]

(* createCell with the upper bounds tested by > instead of >= *)
createCell_OffByOne(cr, x, y) ==
    IF x < 0 \/ x > max_width THEN [cellrows |-> cr, ret |-> RetNone]
    ELSE IF y < 0 \/ y > max_height THEN [cellrows |-> cr, ret |-> RetNone]
    ELSE LET b == UpdateBounds(cr, x, y)
             new == Cell(b, x, y, FALSE)
         IN  IF y \notin DOMAIN b.rows
             THEN [cellrows |-> [b EXCEPT !.rows = (y :> (x :> new)) @@ b.rows],
                   ret |-> RetCell(new)]
             ELSE IF x \notin DOMAIN b.rows[y]
             THEN [cellrows |-> [b EXCEPT !.rows[y] = (x :> new) @@ b.rows[y]],
                   ret |-> RetCell(new)]
             ELSE [cellrows |-> b, ret |-> RetCell(b.rows[y][x])]

(* Maze.createCell: the grid after the call and the value returned *)
createCell(cr, x, y) ==
    IF x < 0 \/ x >= max_width THEN [cellrows |-> cr, ret |-> RetNone]
    ELSE IF y < 0 \/ y >= max_height THEN [cellrows |-> cr, ret |-> RetNone]
    ELSE LET b == UpdateBounds(cr, x, y)
             new == Cell(b, x, y, FALSE)
         IN  IF y \notin DOMAIN b.rows
             THEN [cellrows |-> [b EXCEPT !.rows = (y :> (x :> new)) @@ b.rows],
                   ret |-> RetCell(new)]
             ELSE IF x \notin DOMAIN b.rows[y]
             THEN [cellrows |-> [b EXCEPT !.rows[y] = (x :> new) @@ b.rows[y]],
                   ret |-> RetCell(new)]
             ELSE [cellrows |-> b, ret |-> RetCell(b.rows[y][x])]

(* The object a cell reference denotes: a stored cell is shared with the   *)
(* grid, a transient one is the caller's own snapshot.                     *)
Deref(cr, c) == IF c.empty THEN c ELSE cr.rows[c.y][c.x]

(* Maze.Cell.hasWallRight, hasWallBelow *)
hasWallRight(cr, c) == Deref(cr, c).wall_right
hasWallBelow(cr, c) == Deref(cr, c).wall_below

(* breakWallRight without the test of __empty *)
breakWallRight_NoEmptyTest(cr, c) ==
    IF Deref(cr, c).wall_right
    THEN [cellrows |-> IF c.empty THEN cr
                       ELSE [cr EXCEPT !.rows[c.y][c.x].wall_right = FALSE],
          ret |-> RetBool(TRUE)]
    ELSE [cellrows |-> cr, ret |-> RetBool(FALSE)]

(* Maze.Cell.breakWallRight *)
breakWallRight(cr, c) ==
    IF ~Deref(cr, c).empty /\ Deref(cr, c).wall_right
    THEN [cellrows |-> [cr EXCEPT !.rows[c.y][c.x].wall_right = FALSE],
          ret |-> RetBool(TRUE)]
    ELSE [cellrows |-> cr, ret |-> RetBool(FALSE)]

(* Maze.Cell.breakWallBelow *)
breakWallBelow(cr, c) ==
    IF ~Deref(cr, c).empty /\ Deref(cr, c).wall_below
    THEN [cellrows |-> [cr EXCEPT !.rows[c.y][c.x].wall_below = FALSE],
          ret |-> RetBool(TRUE)]
    ELSE [cellrows |-> cr, ret |-> RetBool(FALSE)]

(* Maze.Cell.hasWallLeft: the maze is asked for its attribute "getcell" *)
hasWallLeft(cr, c) ==
    IF "getcell" \in MazeAttributes
    THEN RetBool(hasWallRight(cr, getCell(cr, c.x - 1, c.y)))
    ELSE AttributeError

(* Maze.Cell.hasWallAbove *)
hasWallAbove(cr, c) ==
    IF "getcell" \in MazeAttributes
    THEN RetBool(hasWallBelow(cr, getCell(cr, c.x, c.y - 1)))
    ELSE AttributeError

(* Maze.Cell.breakWallLeft *)
breakWallLeft(cr, c) ==
    IF "getcell" \in MazeAttributes
    THEN breakWallRight(cr, getCell(cr, c.x - 1, c.y))
    ELSE [cellrows |-> cr, ret |-> AttributeError]

(* Maze.Cell.breakWallAbove: after the lookup it calls breakWallAbove      *)
(* again, on the cell above                                                *)
breakWallAbove(cr, c) ==
    IF "getcell" \in MazeAttributes
    THEN [cellrows |-> cr, ret |-> RecursionError]
    ELSE [cellrows |-> cr, ret |-> AttributeError]

(* Cell.__str__ that leaves a blank wherever the right wall is absent *)
CellStr_NoFallback(c) ==
    <<IF c.wall_below THEN "_" ELSE " ", IF c.wall_right THEN "|" ELSE " ">>

(* Maze.Cell.__str__: the text is a sequence of characters *)
CellStr(c) ==
    <<IF c.wall_below THEN "_" ELSE " ">>
    \o <<IF c.wall_right THEN "|"
         ELSE IF c.wall_below THEN "_"
         ELSE " ">>

(* The inner loop of Maze.__str__: the cells of a row from col to last *)
RECURSIVE RowStr(_, _, _, _)
RowStr(cr, row, col, last) ==
    IF col > last THEN <<>>
    ELSE CellStr(getCell(cr, col, row)) \o RowStr(cr, row, col + 1, last)

(* The outer loop of Maze.__str__: the rows from row to last *)
RECURSIVE RowsStr(_, _, _)
RowsStr(cr, row, last) ==
    IF row > last THEN <<>>
    ELSE RowStr(cr, row, cr.min[1] - 1, cr.max[1]) \o <<"\n">>
         \o RowsStr(cr, row + 1, last)

(* Maze.__str__ that starts at the first populated row and column *)
MazeStr_NoMargin(cr) ==
    IF cr.min[2] = None THEN TypeError
    ELSE LET RECURSIVE Line(_, _)
             Line(row, col) ==
                 IF col > cr.max[1] THEN <<>>
                 ELSE CellStr(getCell(cr, col, row)) \o Line(row, col + 1)
             RECURSIVE Lines(_)
             Lines(row) ==
                 IF row > cr.max[2] THEN <<>>
                 ELSE Line(row, cr.min[1]) \o <<"\n">> \o Lines(row + 1)
         IN  RetStr(Lines(cr.min[2]))

(* Maze.__str__ that yields the empty text while the bounding box is unset *)
MazeStr_EmptyText(cr) ==
    IF cr.min[2] = None THEN RetStr(<<>>)
    ELSE RetStr(RowsStr(cr, cr.min[2] - 1, cr.max[2]))

(* Maze.__str__: None - 1 raises TypeError while the bounding box is unset *)
MazeStr(cr) ==
    IF cr.min[2] = None THEN TypeError
    ELSE RetStr(RowsStr(cr, cr.min[2] - 1, cr.max[2]))

(* The four (coordinate, wall operation) pairs of _recursivePopulate, in   *)
(* the order of the list handed to random.sample: left, above, right, below *)
DirTarget(c, d) ==
    IF d = 1 THEN <<c.x - 1, c.y>>
    ELSE IF d = 2 THEN <<c.x, c.y - 1>>
    ELSE IF d = 3 THEN <<c.x + 1, c.y>>
    ELSE <<c.x, c.y + 1>>

(* DirBreak with every lambda applied to its argument, the new cell *)
DirBreak_NewCell(cr, c, d, nc) ==
    IF d = 1 \/ d = 3 THEN breakWallRight(cr, nc) ELSE breakWallBelow(cr, nc)

(* DirBreak with the lambdas of the left and above entries applied to the  *)
(* frame's cell instead of their argument                                  *)
DirBreak_OwnCell(cr, c, d, nc) ==
    IF d = 1 \/ d = 3 THEN breakWallRight(cr, c) ELSE breakWallBelow(cr, c)

(* dir[1](nc) for the frame's cell c *)
DirBreak(cr, c, d, nc) ==
    IF d = 1 THEN breakWallRight(cr, nc)
    ELSE IF d = 2 THEN breakWallBelow(cr, nc)
    ELSE IF d = 3 THEN breakWallRight(cr, c)
    ELSE breakWallBelow(cr, c)

(* random.sample(list, 4) yields the four entries in any order.  The order *)
(* is drawn one entry at a time: Directions is what is left to draw, and   *)
(* the successive draws of a call range over all 24 orders.                *)
Directions == 1..4

(* A frame whose sample has three of the four entries *)
Frame_ThreeOfFour(c) == [cell |-> c, dirs |-> 1..3, dir |-> 0, nc |-> RetNone]

(* A frame of _recursivePopulate: its cell, the entries of the sample not  *)
(* yet iterated, the entry of the current iteration (dir), and nc once     *)
(* createCell has returned a cell for it and dir[1](nc) is still to run    *)
Frame(c) == [cell |-> c, dirs |-> Directions, dir |-> 0, nc |-> RetNone]

(* _recursivePopulate is invoked on cell c once more *)
Enter(e, c) ==
    IF <<c.x, c.y>> \in DOMAIN e
    THEN [e EXCEPT ![<<c.x, c.y>>] = @ + 1]
    ELSE (<<c.x, c.y>> :> 1) @@ e

Top == stack[Len(stack)]
Below == SubSeq(stack, 1, Len(stack) - 1)

Init ==
    /\ max_width \in 1..MaxSide
    /\ max_height \in 1..MaxSide
    /\ max_width * max_height <= MaxCells
    /\ cellrows = EmptyCellrows
    /\ stack = <<>>
    /\ pc = "idle"
    /\ call = [op |-> "Maze", x |-> max_width, y |-> max_height]
    /\ ret = NoRet
    /\ ncalls = 0
    /\ pre = EmptyCellrows
    /\ entered = <<>>

(* Arguments a client passes *)
XArgs == -1..max_width
YArgs == -1..max_height

ClientCall(op, x, y) ==
    /\ pc = "idle"
    /\ ncalls < MaxCalls
    /\ ncalls' = ncalls + 1
    /\ call' = [op |-> op, x |-> x, y |-> y]
    /\ pre' = cellrows

(* populateFrom without the cellExists test *)
populateFrom_NoGuard(x, y) ==
    /\ ClientCall("populateFrom", x, y)
    /\ LET r == createCell(cellrows, x, y)
       IN  /\ cellrows' = r.cellrows
           /\ IF r.ret.kind = "None"
              THEN /\ ret' = AttributeError
                   /\ pc' = "error"
                   /\ entered' = <<>>
                   /\ UNCHANGED stack
              ELSE /\ stack' = <<Frame(r.ret.val)>>
                   /\ pc' = "populating"
                   /\ ret' = NoRet
                   /\ entered' = Enter(<<>>, r.ret.val)
    /\ UNCHANGED <<max_width, max_height>>

(* populateFrom that tests the result of createCell and returns False for  *)
(* a seed that createCell refuses                                          *)
populateFrom_SeedTested(x, y) ==
    /\ ClientCall("populateFrom", x, y)
    /\ IF cellExists(cellrows, x, y)
       THEN /\ ret' = RetBool(FALSE)
            /\ entered' = <<>>
            /\ UNCHANGED <<cellrows, stack, pc>>
       ELSE LET r == createCell(cellrows, x, y)
            IN  /\ cellrows' = r.cellrows
                /\ IF r.ret.kind = "None"
                   THEN /\ ret' = RetBool(FALSE)
                        /\ entered' = <<>>
                        /\ UNCHANGED <<stack, pc>>
                   ELSE /\ stack' = <<Frame(r.ret.val)>>
                        /\ pc' = "populating"
                        /\ ret' = NoRet
                        /\ entered' = Enter(<<>>, r.ret.val)
    /\ UNCHANGED <<max_width, max_height>>

(* Maze.populateFrom up to the first iteration of _recursivePopulate *)
populateFrom(x, y) ==
    /\ ClientCall("populateFrom", x, y)
    /\ IF cellExists(cellrows, x, y)
       THEN /\ ret' = RetBool(FALSE)
            /\ entered' = <<>>
            /\ UNCHANGED <<cellrows, stack, pc>>
       ELSE LET r == createCell(cellrows, x, y)
            IN  /\ cellrows' = r.cellrows
                /\ IF r.ret.kind = "None"
                   THEN /\ ret' = AttributeError
                        /\ pc' = "error"
                        /\ entered' = <<>>
                        /\ UNCHANGED stack
                   ELSE /\ stack' = <<Frame(r.ret.val)>>
                        /\ pc' = "populating"
                        /\ ret' = NoRet
                        /\ entered' = Enter(<<>>, r.ret.val)
    /\ UNCHANGED <<max_width, max_height>>

PopulateFrom == pc = "idle" /\ \E x \in XArgs, y \in YArgs : populateFrom(x, y)

(* The loop iteration without the cellExists test: createCell is called    *)
(* for every entry of the sample                                           *)
examine_NoExistsTest(d) ==
    /\ pc = "populating"
    /\ Top.nc.kind = "None"
    /\ d \in Top.dirs
    /\ LET t == DirTarget(Top.cell, d)
           next == [Top EXCEPT !.dirs = @ \ {d}]
       IN  IF TRUE
           THEN LET r == createCell(cellrows, t[1], t[2])
                IN  /\ cellrows' = r.cellrows
                    /\ IF r.ret.kind # "None"
                       THEN stack' = Below \o <<[next EXCEPT !.dir = d, !.nc = r.ret]>>
                       ELSE stack' = Below \o <<next>>
           ELSE /\ stack' = Below \o <<next>>
                /\ UNCHANGED cellrows
    /\ UNCHANGED <<max_width, max_height, pc, call, ret, ncalls, pre, entered>>

(* One iteration of the for loop of _recursivePopulate up to and including *)
(* createCell, for the next entry d of the sample                          *)
examine(d) ==
    /\ pc = "populating"
    /\ Top.nc.kind = "None"
    /\ d \in Top.dirs
    /\ LET t == DirTarget(Top.cell, d)
           next == [Top EXCEPT !.dirs = @ \ {d}]
       IN  IF ~cellExists(cellrows, t[1], t[2])
           THEN LET r == createCell(cellrows, t[1], t[2])
                IN  /\ cellrows' = r.cellrows
                    /\ IF r.ret.kind # "None"
                       THEN stack' = Below \o <<[next EXCEPT !.dir = d, !.nc = r.ret]>>
                       ELSE stack' = Below \o <<next>>
           ELSE /\ stack' = Below \o <<next>>
                /\ UNCHANGED cellrows
    /\ UNCHANGED <<max_width, max_height, pc, call, ret, ncalls, pre, entered>>

Examine == pc = "populating" /\ \E d \in Directions : examine(d)

(* dir[1](nc) without the recursive call: the loop goes on with the next   *)
(* entry of the same sample                                                *)
Carve_NoDescent ==
    /\ pc = "populating"
    /\ Top.nc.kind = "Cell"
    /\ LET r == DirBreak(cellrows, Top.cell, Top.dir, Top.nc.val)
       IN  /\ cellrows' = r.cellrows
           /\ stack' = Below \o <<[Top EXCEPT !.dir = 0, !.nc = RetNone]>>
    /\ UNCHANGED <<max_width, max_height, pc, call, ret, ncalls, pre, entered>>

(* dir[1](nc) and the call self._recursivePopulate(nc) *)
Carve ==
    /\ pc = "populating"
    /\ Top.nc.kind = "Cell"
    /\ LET r == DirBreak(cellrows, Top.cell, Top.dir, Top.nc.val)
       IN  /\ cellrows' = r.cellrows
           /\ stack' = Below \o <<[Top EXCEPT !.dir = 0, !.nc = RetNone],
                                  Frame(Top.nc.val)>>
    /\ entered' = Enter(entered, Top.nc.val)
    /\ UNCHANGED <<max_width, max_height, pc, call, ret, ncalls, pre>>

(* The for loop is exhausted: _recursivePopulate returns, and populateFrom *)
(* returns True when it was the outermost call                             *)
Return ==
    /\ pc = "populating"
    /\ Top.nc.kind = "None"
    /\ Top.dirs = {}
    /\ stack' = Below
    /\ IF Len(stack) = 1
       THEN pc' = "idle" /\ ret' = RetBool(TRUE)
       ELSE UNCHANGED <<pc, ret>>
    /\ UNCHANGED <<max_width, max_height, cellrows, call, ncalls, pre, entered>>

(* A method call that runs to its end in one step: the grid it leaves and  *)
(* the value it returns, or the exception it raises                        *)
Complete(r) ==
    /\ cellrows' = r.cellrows
    /\ ret' = r.ret
    /\ pc' = IF r.ret.kind \in {"AttributeError", "RecursionError", "TypeError"}
             THEN "error" ELSE "idle"
    /\ entered' = <<>>
    /\ UNCHANGED <<max_width, max_height, stack>>

(* m.createCell(x, y) *)
CreateCell ==
    pc = "idle" /\ \E x \in XArgs, y \in YArgs :
        ClientCall("createCell", x, y) /\ Complete(createCell(cellrows, x, y))

(* m.getCell(x, y) *)
GetCell ==
    pc = "idle" /\ \E x \in XArgs, y \in YArgs :
        /\ ClientCall("getCell", x, y)
        /\ Complete([cellrows |-> cellrows, ret |-> RetCell(getCell(cellrows, x, y))])

(* m.cellExists(x, y) *)
CellExists ==
    pc = "idle" /\ \E x \in XArgs, y \in YArgs :
        /\ ClientCall("cellExists", x, y)
        /\ Complete([cellrows |-> cellrows, ret |-> RetBool(cellExists(cellrows, x, y))])

(* m.getCell(x, y).breakWallRight() and the other three walls *)
BreakWallRight ==
    pc = "idle" /\ \E x \in XArgs, y \in YArgs :
        /\ ClientCall("breakWallRight", x, y)
        /\ Complete(breakWallRight(cellrows, getCell(cellrows, x, y)))

BreakWallBelow ==
    pc = "idle" /\ \E x \in XArgs, y \in YArgs :
        /\ ClientCall("breakWallBelow", x, y)
        /\ Complete(breakWallBelow(cellrows, getCell(cellrows, x, y)))

BreakWallLeft ==
    pc = "idle" /\ \E x \in XArgs, y \in YArgs :
        /\ ClientCall("breakWallLeft", x, y)
        /\ Complete(breakWallLeft(cellrows, getCell(cellrows, x, y)))

BreakWallAbove ==
    pc = "idle" /\ \E x \in XArgs, y \in YArgs :
        /\ ClientCall("breakWallAbove", x, y)
        /\ Complete(breakWallAbove(cellrows, getCell(cellrows, x, y)))

(* m.getCell(x, y).hasWallLeft() and hasWallAbove() *)
HasWallLeft ==
    pc = "idle" /\ \E x \in XArgs, y \in YArgs :
        /\ ClientCall("hasWallLeft", x, y)
        /\ Complete([cellrows |-> cellrows,
                     ret |-> hasWallLeft(cellrows, getCell(cellrows, x, y))])

HasWallAbove ==
    pc = "idle" /\ \E x \in XArgs, y \in YArgs :
        /\ ClientCall("hasWallAbove", x, y)
        /\ Complete([cellrows |-> cellrows,
                     ret |-> hasWallAbove(cellrows, getCell(cellrows, x, y))])

(* str(m) *)
Str ==
    /\ pc = "idle"
    /\ ClientCall("__str__", 0, 0)
    /\ Complete([cellrows |-> cellrows, ret |-> MazeStr(cellrows)])

Next ==
    \/ PopulateFrom
    \/ Examine
    \/ Carve
    \/ Return
    \/ CreateCell
    \/ GetCell
    \/ CellExists
    \/ BreakWallRight
    \/ BreakWallBelow
    \/ BreakWallLeft
    \/ BreakWallAbove
    \/ HasWallLeft
    \/ HasWallAbove
    \/ Str

Spec == Init /\ [][Next]_vars

(* Generation only: the client creates cells, looks them up and populates, *)
(* and never calls a wall-breaking method itself                           *)
NextGeneration ==
    \/ PopulateFrom
    \/ Examine
    \/ Carve
    \/ Return
    \/ CreateCell
    \/ GetCell

SpecGeneration == Init /\ [][NextGeneration]_vars

(***************************************************************************)
(* Vocabulary of the properties                                            *)
(***************************************************************************)
InBounds(x, y) == 0 <= x /\ x < max_width /\ 0 <= y /\ y < max_height

StoredCells(cr) == UNION {{<<x, y>> : x \in DOMAIN cr.rows[y]} : y \in DOMAIN cr.rows}

BrokenWalls(cr) ==
    {<<p, "right">> : p \in {q \in StoredCells(cr) : ~cr.rows[q[2]][q[1]].wall_right}}
    \cup {<<p, "below">> : p \in {q \in StoredCells(cr) : ~cr.rows[q[2]][q[1]].wall_below}}

(* Two stored cells are joined where the wall between them is broken *)
Passages(cr) ==
    {{p, <<p[1] + 1, p[2]>>} : p \in {q \in StoredCells(cr) :
        <<q[1] + 1, q[2]>> \in StoredCells(cr) /\ ~cr.rows[q[2]][q[1]].wall_right}}
    \cup {{p, <<p[1], p[2] + 1>>} : p \in {q \in StoredCells(cr) :
        <<q[1], q[2] + 1>> \in StoredCells(cr) /\ ~cr.rows[q[2]][q[1]].wall_below}}

RECURSIVE Reach(_, _)
Reach(E, S) ==
    LET T == S \cup UNION {e \in E : e \cap S # {}}
    IN  IF T = S THEN S ELSE Reach(E, T)

Connected(V, E) == V = {} \/ \E v \in V : Reach(E, {v}) = V

(* No cycle: stripping the cells with at most one passage, again and again, *)
(* leaves nothing                                                          *)
RECURSIVE Acyclic(_, _)
Acyclic(V, E) ==
    LET leaves == {v \in V : Cardinality({e \in E : v \in e}) <= 1}
    IN  IF V = {} THEN TRUE
        ELSE IF leaves = {} THEN FALSE
        ELSE Acyclic(V \ leaves, {e \in E : e \cap leaves = {}})

Returned(op) == pc = "idle" /\ call.op = op

(* populateFrom found the grid empty and has returned True *)
PopulatedFromEmpty ==
    /\ Returned("populateFrom")
    /\ pre = EmptyCellrows
    /\ ret = RetBool(TRUE)

(***************************************************************************)
(* C1: when populateFrom on an empty grid has returned, the number of      *)
(* broken walls is the number of cells minus one and the passage graph is  *)
(* connected and acyclic.                                                  *)
(***************************************************************************)
C1_SpanningTree ==
    PopulatedFromEmpty =>
        /\ Cardinality(BrokenWalls(cellrows)) = Cardinality(StoredCells(cellrows)) - 1
        /\ Connected(StoredCells(cellrows), Passages(cellrows))
        /\ Acyclic(StoredCells(cellrows), Passages(cellrows))

(* a finished 2 x 2 maze *)
C1_Witness ==
    /\ PopulatedFromEmpty
    /\ max_width = 2 /\ max_height = 2
    /\ Cardinality(StoredCells(cellrows)) = 4

(***************************************************************************)
(* C2: after a successful populateFrom on an empty grid a cell exists at   *)
(* every coordinate within the bounds.                                     *)
(***************************************************************************)
C2_FullyPopulated ==
    PopulatedFromEmpty =>
        \A x \in 0..(max_width - 1), y \in 0..(max_height - 1) : cellExists(cellrows, x, y)

(* a finished maze of more than one row and column, seeded away from (0,0) *)
C2_Witness ==
    /\ PopulatedFromEmpty
    /\ max_width = 2 /\ max_height = 2
    /\ call.x = 1 /\ call.y = 1
    /\ cellExists(cellrows, 0, 0)

(***************************************************************************)
(* C3: adjacent real cells agree on the wall between them, seen from       *)
(* either side, and hasWallLeft and hasWallAbove always yield a boolean.   *)
(***************************************************************************)
C3_WallSymmetry ==
    \A p \in StoredCells(cellrows) :
        LET b == cellrows.rows[p[2]][p[1]]
        IN  /\ hasWallLeft(cellrows, b).kind = "bool"
            /\ hasWallAbove(cellrows, b).kind = "bool"
            /\ cellExists(cellrows, p[1] - 1, p[2]) =>
                 hasWallLeft(cellrows, b) =
                     RetBool(hasWallRight(cellrows, cellrows.rows[p[2]][p[1] - 1]))
            /\ cellExists(cellrows, p[1], p[2] - 1) =>
                 hasWallAbove(cellrows, b) =
                     RetBool(hasWallBelow(cellrows, cellrows.rows[p[2] - 1][p[1]]))

(***************************************************************************)
(* C4: during and after generation every real cell on the edge of the      *)
(* populated region has its outward wall: its own right wall in the        *)
(* maximum column, its own bottom wall in the maximum row, the right wall  *)
(* of the virtual cell to its left in the minimum column and the bottom    *)
(* wall of the virtual cell above it in the minimum row.                   *)
(***************************************************************************)
MinOf(S) == CHOOSE m \in S : \A n \in S : m <= n
MaxOf(S) == CHOOSE m \in S : \A n \in S : m >= n
Columns(cr) == {p[1] : p \in StoredCells(cr)}
Rows(cr) == {p[2] : p \in StoredCells(cr)}

C4_BoundarySolid ==
    LET cells == StoredCells(cellrows)
        minCol == MinOf(Columns(cellrows))
        maxCol == MaxOf(Columns(cellrows))
        minRow == MinOf(Rows(cellrows))
        maxRow == MaxOf(Rows(cellrows))
    IN  \A p \in cells :
            LET left == getCell(cellrows, p[1] - 1, p[2])
                above == getCell(cellrows, p[1], p[2] - 1)
            IN  /\ p[1] = maxCol =>
                     hasWallRight(cellrows, getCell(cellrows, p[1], p[2]))
                /\ p[2] = maxRow =>
                     hasWallBelow(cellrows, getCell(cellrows, p[1], p[2]))
                /\ p[1] = minCol =>
                     left.empty /\ hasWallRight(cellrows, left)
                /\ p[2] = minRow =>
                     above.empty /\ hasWallBelow(cellrows, above)

(* generation under way in a 2 x 2 grid, two walls carved so far *)
C4_Witness ==
    /\ pc = "populating"
    /\ max_width = 2 /\ max_height = 2
    /\ Cardinality(BrokenWalls(cellrows)) = 2

(***************************************************************************)
(* C5: populateFrom(x, y) on a coordinate that already holds a cell        *)
(* returns False and leaves cells, wall flags and bounding box as they     *)
(* were.                                                                   *)
(***************************************************************************)
C5_ReseedRejected ==
    (call.op = "populateFrom" /\ cellExists(pre, call.x, call.y)) =>
        /\ pc = "idle"
        /\ ret = RetBool(FALSE)
        /\ cellrows = pre

(* a second populateFrom on a populated grid of several cells *)
C5_Witness ==
    /\ Returned("populateFrom")
    /\ cellExists(pre, call.x, call.y)
    /\ Cardinality(StoredCells(pre)) >= 2
    /\ BrokenWalls(pre) # {}

(***************************************************************************)
(* C6: createCell(x, y) on a coordinate that already holds a cell returns  *)
(* that cell with the walls it had and changes nothing in the grid.        *)
(***************************************************************************)
C6_CreateCellIdempotent ==
    (call.op = "createCell" /\ cellExists(pre, call.x, call.y)) =>
        /\ pc = "idle"
        /\ ret = RetCell(pre.rows[call.y][call.x])
        /\ cellrows = pre

(* createCell on a stored cell one of whose walls has been broken *)
C6_Witness ==
    /\ Returned("createCell")
    /\ cellExists(pre, call.x, call.y)
    /\ ~pre.rows[call.y][call.x].wall_right

(***************************************************************************)
(* C7: createCell outside the bounds returns None and stores nothing, and  *)
(* no cell is ever stored outside the bounds (cellExists is false there).  *)
(***************************************************************************)
C7_OutOfBoundsRefused ==
    /\ (call.op = "createCell" /\ ~InBounds(call.x, call.y)) =>
           /\ pc = "idle"
           /\ ret = RetNone
           /\ cellrows = pre
    /\ \A p \in StoredCells(cellrows) : InBounds(p[1], p[2])
    /\ \A x \in XArgs, y \in YArgs : ~InBounds(x, y) => ~cellExists(cellrows, x, y)

(* createCell outside the bounds of a grid that holds cells *)
C7_Witness ==
    /\ Returned("createCell")
    /\ ~InBounds(call.x, call.y)
    /\ StoredCells(cellrows) # {}

(***************************************************************************)
(* C8: breakWallRight / breakWallBelow on a virtual cell or on a real cell *)
(* without that wall changes nothing and returns False; otherwise it       *)
(* clears that one flag of that one cell, nothing else, and returns True.  *)
(***************************************************************************)
WallFlag(c, op) == IF op = "breakWallRight" THEN c.wall_right ELSE c.wall_below
OtherFlag(c, op) == IF op = "breakWallRight" THEN c.wall_below ELSE c.wall_right

C8_BreakOwnWall ==
    (call.op \in {"breakWallRight", "breakWallBelow"}) =>
        LET c == getCell(pre, call.x, call.y)
        IN  /\ pc = "idle"
            /\ IF c.empty \/ ~WallFlag(c, call.op)
               THEN ret = RetBool(FALSE) /\ cellrows = pre
               ELSE /\ ret = RetBool(TRUE)
                    /\ StoredCells(cellrows) = StoredCells(pre)
                    /\ cellrows.min = pre.min /\ cellrows.max = pre.max
                    /\ ~WallFlag(cellrows.rows[call.y][call.x], call.op)
                    /\ OtherFlag(cellrows.rows[call.y][call.x], call.op) = OtherFlag(c, call.op)
                    /\ \A p \in StoredCells(pre) :
                         p # <<call.x, call.y>> =>
                             cellrows.rows[p[2]][p[1]] = pre.rows[p[2]][p[1]]

(* a wall of a real cell is broken in a grid of several cells *)
C8_Witness ==
    /\ Returned("breakWallBelow")
    /\ ret = RetBool(TRUE)
    /\ Cardinality(StoredCells(pre)) >= 2

(***************************************************************************)
(* C9: breakWallLeft on the cell at (x, y) does and returns what           *)
(* breakWallRight does on getCell(x-1, y), and breakWallAbove what         *)
(* breakWallBelow does on getCell(x, y-1); both return a boolean.          *)
(***************************************************************************)
C9_LeftAboveDelegate ==
    /\ (call.op = "breakWallLeft") =>
           LET r == breakWallRight(pre, getCell(pre, call.x - 1, call.y))
           IN  pc = "idle" /\ ret = r.ret /\ cellrows = r.cellrows
    /\ (call.op = "breakWallAbove") =>
           LET r == breakWallBelow(pre, getCell(pre, call.x, call.y - 1))
           IN  pc = "idle" /\ ret = r.ret /\ cellrows = r.cellrows

(***************************************************************************)
(* C10: getCell(x, y) always returns: the stored cell where there is one,  *)
(* otherwise a virtual cell whose wallBelow is cellExists(x, y+1) and      *)
(* whose wallRight is cellExists(x+1, y); the grid is as it was.           *)
(***************************************************************************)
C10_GetCellTotal ==
    (call.op = "getCell") =>
        /\ pc = "idle"
        /\ cellrows = pre
        /\ ret.kind = "Cell"
        /\ IF cellExists(pre, call.x, call.y)
           THEN ret.val = pre.rows[call.y][call.x] /\ ~ret.val.empty
           ELSE /\ ret.val.empty
                /\ ret.val.x = call.x /\ ret.val.y = call.y
                /\ ret.val.wall_below = cellExists(pre, call.x, call.y + 1)
                /\ ret.val.wall_right = cellExists(pre, call.x + 1, call.y)

(* a lookup outside the bounds, next to a real cell *)
C10_Witness ==
    /\ Returned("getCell")
    /\ ~InBounds(call.x, call.y)
    /\ ret.val.empty
    /\ ret.val.wall_right

(***************************************************************************)
(* A Maze constructed with a width or a height that is not positive.       *)
(* Maze.__init__ stores whatever it is given.  No frame of                 *)
(* _recursivePopulate is ever entered on such a grid, so the steps of the  *)
(* recursion are left out of this specification.                           *)
(***************************************************************************)
InitNonPositive ==
    /\ max_width \in -1..MaxCells
    /\ max_height \in -1..MaxCells
    /\ max_width <= 0 \/ max_height <= 0
    /\ cellrows = EmptyCellrows
    /\ stack = <<>>
    /\ pc = "idle"
    /\ call = [op |-> "Maze", x |-> max_width, y |-> max_height]
    /\ ret = NoRet
    /\ ncalls = 0
    /\ pre = EmptyCellrows
    /\ entered = <<>>

NextNonPositive ==
    \/ PopulateFrom
    \/ CreateCell
    \/ GetCell
    \/ CellExists
    \/ BreakWallRight
    \/ BreakWallBelow
    \/ BreakWallLeft
    \/ BreakWallAbove
    \/ HasWallLeft
    \/ HasWallAbove

SpecNonPositive == InitNonPositive /\ [][NextNonPositive]_vars

(***************************************************************************)
(* C11: a grid with a width or height of zero or less contains no cells:   *)
(* createCell returns None everywhere, cellExists is false everywhere, and *)
(* populateFrom completes without an error and stores nothing.             *)
(***************************************************************************)
C11_NoCellsGrid ==
    (max_width <= 0 \/ max_height <= 0) =>
        /\ StoredCells(cellrows) = {}
        /\ \A x \in XArgs, y \in YArgs : ~cellExists(cellrows, x, y)
        /\ call.op = "createCell" => pc = "idle" /\ ret = RetNone
        /\ call.op = "populateFrom" => pc # "error"

(***************************************************************************)
(* C12 (determinism under fixed randomness) relates two runs of the        *)
(* program and is not stated here.                                         *)
(***************************************************************************)

(***************************************************************************)
(* C13 as claimed: a 1 x 1 grid populated from (0,0) holds one cell with   *)
(* both walls, and the whole maze renders as "_|\n".                       *)
(***************************************************************************)
Populated1x1 == PopulatedFromEmpty /\ max_width = 1 /\ max_height = 1

C13_Render1x1_Claimed ==
    Populated1x1 =>
        /\ StoredCells(cellrows) = {<<0, 0>>}
        /\ cellrows.rows[0][0].wall_right /\ cellrows.rows[0][0].wall_below
        /\ MazeStr(cellrows) = RetStr(<<"_", "|", "\n">>)

(***************************************************************************)
(* C13 amended: a 1 x 1 grid populated from (0,0) holds one cell with both *)
(* walls, whose own fragment is "_|"; the whole maze renders with the      *)
(* margin row above and the margin column to the left, as "  __\n |_|\n".  *)
(***************************************************************************)
C13_Render1x1 ==
    Populated1x1 =>
        /\ StoredCells(cellrows) = {<<0, 0>>}
        /\ cellrows.rows[0][0].wall_right /\ cellrows.rows[0][0].wall_below
        /\ CellStr(cellrows.rows[0][0]) = <<"_", "|">>
        /\ MazeStr(cellrows) =
               RetStr(<<" ", " ", "_", "_", "\n", " ", "|", "_", "|", "\n">>)

C13_Witness == Populated1x1 /\ call.x = 0 /\ call.y = 0

(***************************************************************************)
(* C14 as claimed: a 2 x 1 grid populated from (0,0) renders a space where *)
(* the wall between (0,0) and (1,0) would be drawn, between the left       *)
(* boundary wall and the right wall of (1,0), both drawn as present.       *)
(***************************************************************************)
Populated2x1 ==
    PopulatedFromEmpty /\ max_width = 2 /\ max_height = 1 /\ call.x = 0 /\ call.y = 0

(* In the text of a 2 x 1 maze the line of row 0 starts after the 7        *)
(* characters of the margin line; its fragments are those of columns -1,   *)
(* 0 and 1                                                                 *)
LeftBoundaryAt == 7 + 2
InnerWallAt == 7 + 4
RightWallAt == 7 + 6

C14_Render2x1_Claimed ==
    Populated2x1 =>
        LET text == MazeStr(cellrows).val
        IN  /\ text[InnerWallAt] = " "
            /\ text[LeftBoundaryAt] = "|"
            /\ text[RightWallAt] = "|"

(***************************************************************************)
(* C14 amended: a 2 x 1 grid populated from (0,0) has the wall between     *)
(* (0,0) and (1,0) broken under every direction order, and the rendering   *)
(* shows no "|" there: the character is "_", the bottom wall of (0,0),     *)
(* between the left boundary wall and the right wall of (1,0), both drawn  *)
(* as "|"; the whole text is "  ____\n |___|\n".                           *)
(***************************************************************************)
C14_Render2x1 ==
    Populated2x1 =>
        LET text == MazeStr(cellrows).val
        IN  /\ ~cellrows.rows[0][0].wall_right
            /\ text[InnerWallAt] = "_"
            /\ text[LeftBoundaryAt] = "|"
            /\ text[RightWallAt] = "|"
            /\ text = <<" ", " ", "_", "_", "_", "_", "\n",
                        " ", "|", "_", "_", "_", "|", "\n">>

C14_Witness == Populated2x1 /\ ~cellrows.rows[0][0].wall_right

(***************************************************************************)
(* C19: rendering a grid in which no cell was ever created raises an error *)
(* and yields no text; once a cell exists rendering yields a text.         *)
(***************************************************************************)
C19_RenderNeedsCell ==
    call.op = "__str__" =>
        /\ cellrows = pre
        /\ IF StoredCells(pre) = {}
           THEN pc = "error" /\ ret = TypeError
           ELSE pc = "idle" /\ ret.kind = "str"

C19_Witness ==
    /\ call.op = "__str__"
    /\ pc = "error"
    /\ ncalls = 2

(***************************************************************************)
(* C15: populateFrom terminates under every direction order, and           *)
(* _recursivePopulate is invoked at most once on each real cell, only on   *)
(* cells that did not exist when populateFrom was called, so at most       *)
(* max_width x max_height times.  Termination is stated by a measure that  *)
(* every step of a running populateFrom strictly decreases and that never  *)
(* goes below zero.                                                        *)
(***************************************************************************)
RECURSIVE SumOf(_, _)
SumOf(f, S) ==
    IF S = {} THEN 0
    ELSE LET k == CHOOSE k \in S : TRUE IN f[k] + SumOf(f, S \ {k})

CarvingCalls == SumOf(entered, DOMAIN entered)

Unstored == max_width * max_height - Cardinality(StoredCells(cellrows))

(* what is left to do: 7 per cell still to create (its creation, its wall, *)
(* its frame and the four entries of its sample), 6 for a wall about to be *)
(* broken, 1 per entry still to iterate and 1 per frame still to return    *)
Measure ==
    7 * Unstored
    + Cardinality(UNION {{<<i, d>> : d \in stack[i].dirs} : i \in DOMAIN stack})
    + 6 * Cardinality({i \in DOMAIN stack : stack[i].nc.kind = "Cell"})
    + Len(stack)

EnteredOnce ==
    /\ \A c \in DOMAIN entered : entered[c] <= 1
    /\ DOMAIN entered \subseteq StoredCells(cellrows)
    /\ DOMAIN entered \cap StoredCells(pre) = {}
    /\ CarvingCalls <= max_width * max_height

C15_VisitsOnceAndTerminates ==
    [][/\ EnteredOnce'
       /\ pc = "populating" => (Measure' < Measure /\ Measure' >= 0)]_vars

(* populateFrom has returned after entering all four cells of a 2 x 2 grid *)
C15_Witness ==
    /\ PopulatedFromEmpty
    /\ max_width = 2 /\ max_height = 2
    /\ CarvingCalls = 4

(***************************************************************************)
(* C18: on a grid with positive bounds, populateFrom with a seed outside   *)
(* [0, max_width) x [0, max_height) gets None from createCell, enters      *)
(* _recursivePopulate with it and ends in an error: it stores no cell,     *)
(* starts no frame and does not return True.                               *)
(***************************************************************************)
C18_SeedOutOfBounds ==
    (call.op = "populateFrom" /\ ~InBounds(call.x, call.y)) =>
        /\ createCell(pre, call.x, call.y).ret = RetNone
        /\ pc = "error"
        /\ ret = AttributeError
        /\ ret # RetBool(TRUE)
        /\ cellrows = pre
        /\ stack = <<>>

(* the call failed on a grid that an earlier call had populated *)
C18_Witness ==
    /\ call.op = "populateFrom"
    /\ ~InBounds(call.x, call.y)
    /\ pc = "error"
    /\ StoredCells(pre) # {}
    /\ StoredCells(cellrows) = StoredCells(pre)

(***************************************************************************)
(* C17: whenever at least one cell is stored, the bounding box is the      *)
(* least rectangle that holds the stored cells; no step removes a stored   *)
(* cell, raises a minimum of the box or lowers a maximum of it.            *)
(***************************************************************************)
BoxIsMinimal(cr) ==
    /\ cr.min = <<MinOf(Columns(cr)), MinOf(Rows(cr))>>
    /\ cr.max = <<MaxOf(Columns(cr)), MaxOf(Rows(cr))>>

BoxNotShrunk(old, new) ==
    /\ new.min[1] <= old.min[1]
    /\ new.min[2] <= old.min[2]
    /\ new.max[1] >= old.max[1]
    /\ new.max[2] >= old.max[2]

C17_BoundingBox ==
    [][/\ StoredCells(cellrows) \subseteq StoredCells(cellrows')
       /\ StoredCells(cellrows') # {} => BoxIsMinimal(cellrows')
       /\ StoredCells(cellrows) # {} => BoxNotShrunk(cellrows, cellrows')]_vars

(* populateFrom has carved to the left of or above its seed: a minimum of  *)
(* the box was lowered after the first cell was stored                     *)
C17_Witness ==
    /\ call.op = "populateFrom"
    /\ StoredCells(pre) = {}
    /\ Cardinality(StoredCells(cellrows)) >= 2
    /\ cellrows.min # cellrows.max
    /\ cellrows.min[1] < call.x \/ cellrows.min[2] < call.y

(***************************************************************************)
(* C16: carving is depth-first.  The cells with an active call of          *)
(* _recursivePopulate form a chain that starts at the seed and in which    *)
(* each cell is next to its caller's; only the last call of the chain      *)
(* acts: it creates a cell next to its own, breaks the wall between the    *)
(* two and is then suspended, with its remaining directions untouched,     *)
(* until the call on the new cell has returned.                            *)
(***************************************************************************)
Adjacent(a, b) ==
    \/ a.x = b.x /\ (a.y = b.y + 1 \/ b.y = a.y + 1)
    \/ a.y = b.y /\ (a.x = b.x + 1 \/ b.x = a.x + 1)

WallBetween(c, n) ==
    IF n.x = c.x + 1 THEN <<<<c.x, c.y>>, "right">>
    ELSE IF n.x = c.x - 1 THEN <<<<n.x, n.y>>, "right">>
    ELSE IF n.y = c.y + 1 THEN <<<<c.x, c.y>>, "below">>
    ELSE <<<<n.x, n.y>>, "below">>

ActiveChain ==
    pc = "populating" =>
        /\ stack # <<>>
        /\ <<stack[1].cell.x, stack[1].cell.y>> = <<call.x, call.y>>
        /\ \A i \in 1..(Len(stack) - 1) :
               /\ Adjacent(stack[i].cell, stack[i + 1].cell)
               /\ stack[i].nc.kind = "None"
        /\ Top.nc.kind = "Cell" => Adjacent(Top.cell, Top.nc.val)

DepthFirstStep ==
    /\ \A i \in 1..(Len(stack) - 1) : i <= Len(stack') => stack'[i] = stack[i]
    /\ \A p \in StoredCells(cellrows') \ StoredCells(cellrows) :
           /\ Len(stack') = Len(stack)
           /\ stack'[Len(stack)].nc.kind = "Cell"
           /\ p = <<stack'[Len(stack)].nc.val.x, stack'[Len(stack)].nc.val.y>>
           /\ Adjacent(Top.cell, stack'[Len(stack)].nc.val)
    /\ Top.nc.kind = "None" => BrokenWalls(cellrows') = BrokenWalls(cellrows)
    /\ Top.nc.kind = "Cell" =>
           /\ BrokenWalls(cellrows') \ BrokenWalls(cellrows)
                  = {WallBetween(Top.cell, Top.nc.val)}
           /\ BrokenWalls(cellrows) \subseteq BrokenWalls(cellrows')
           /\ Len(stack') = Len(stack) + 1
           /\ stack'[Len(stack)].dirs = Top.dirs
           /\ stack'[Len(stack)].nc.kind = "None"
           /\ stack'[Len(stack')].cell.x = Top.nc.val.x
           /\ stack'[Len(stack')].cell.y = Top.nc.val.y

C16_DepthFirst ==
    [][ActiveChain' /\ (pc = "populating" => DepthFirstStep)]_vars

(* all four cells of a 2 x 2 grid have an active call: the chain has       *)
(* turned a corner twice                                                   *)
C16_Witness ==
    /\ pc = "populating"
    /\ max_width = 2
    /\ max_height = 2
    /\ Len(stack) = 4
    /\ Cardinality({<<stack[i].cell.x, stack[i].cell.y>> : i \in 1..4}) = 4

====
